---- MODULE Spec2Model ----
(***************************************************************************)
(* serverless-doppler-secrets: the `doppler:` variable source.             *)
(*                                                                         *)
(* src/index.js holds two variants of the plugin class: variant 1 (lines   *)
(* 9-212) falls back to the local Doppler CLI settings whenever no token   *)
(* is given; variant 2 (lines 224-436) gates the fallback behind the       *)
(* localFallback setting.  The state variable `variant` says which one is  *)
(* loaded.                                                                 *)
(*                                                                         *)
(* JavaScript values are modelled as strings: the sentinels below stand    *)
(* for undefined, null, true and false; every other string is itself.      *)
(***************************************************************************)
EXTENDS Integers, Sequences, FiniteSets, TLC

VARIABLES
  variant,   \* 1 or 2: which class of src/index.js is loaded
  promise,   \* this.getDopplerSecretsPromise
  gds,       \* the activation of getDopplerSecrets (its locals, its await)
  lds,       \* the activation of getLocalDopplerSettings
  lookups,   \* the resolveDopplerSecret calls issued so far, each with the
             \* state it found the memoized promise in (joined)
  calls,     \* how often each collaborator operation was invoked
  seen,      \* what the remote service answered in this run
  mrg,       \* harness of the precedence merge (SpecMerge)
  gsv        \* the activation of getScopedValue (SpecScoped)

vars == <<variant, promise, gds, lds, lookups, calls, seen, mrg, gsv>>

---------------------------------------------------------------------------
(* JavaScript values *)

Undefined == "<undefined>"
Null      == "<null>"
JsTrue    == "<true>"
JsFalse   == "<false>"

\* ToBoolean: what `if (v)` and `!v` see.
Truthy(v) == v \notin {Undefined, Null, JsFalse, ""}

\* a ?? b
Coalesce(a, b) == IF a \in {Undefined, Null} THEN b ELSE a

\* obj?.[field] for a scalar field; an absent object is the empty record.
Get(obj, field) == IF field \in DOMAIN obj THEN obj[field] ELSE Undefined

\* obj?.[field] for an object-valued field.
EmptyObj == [x \in {} |-> x]
GetObj(obj, field) == IF field \in DOMAIN obj THEN obj[field] ELSE EmptyObj

---------------------------------------------------------------------------
(* resolveDopplerSecret, lines 49-71 and 265-293: the precedence merge.    *)
(*                                                                         *)
(* A CLI param string is held as the sequence p.split('=') yields (a       *)
(* string and its '='-separated segments determine each other).  An        *)
(* undefined array element is the empty sequence, which no split yields.   *)

NoParam == <<>>

\* The first segments of the model's alphabet that start with 'doppler-'.
DopplerPrefixed ==
  {"doppler-token", "doppler-project", "doppler-config", "doppler-local-fallback"}

\* p?.startsWith('doppler-')
StartsWithDoppler(p) == p # NoParam /\ p[1] \in DopplerPrefixed

\* .map(s => [s[0], s[1]]) after .filter(...).map(p => p.split('='))
ParamEntries(param) ==
  LET kept == SelectSeq(param, StartsWithDoppler)
  IN  [i \in 1..Len(kept) |->
         <<kept[i][1], IF Len(kept[i]) >= 2 THEN kept[i][2] ELSE Undefined>>]

\* Object.fromEntries(entries)[key]: the last entry of a key wins.
FromEntriesGet(entries, key) ==
  LET idx == {i \in 1..Len(entries) : entries[i][1] = key}
  IN  IF idx = {} THEN Undefined
      ELSE entries[CHOOSE i \in idx : \A j \in idx : j <= i][2]

\* options.param?. ... || []
CliParams(options) ==
  IF "param" \in DOMAIN options THEN ParamEntries(options.param) ELSE <<>>

\* this.serverless.configurationInput.doppler?.stages?.[stage]
StageConfig(input) ==
  GetObj(GetObj(GetObj(input, "doppler"), "stages"), input.provider.stage)

\* The same chain with || in place of ??: a present but falsy value (false, '')
\* of an upper layer is skipped.
MergeFieldLogicalOr(options, input, cliKey, field) ==
  LET cli    == FromEntriesGet(CliParams(options), cliKey)
      staged == Get(StageConfig(input), field)
  IN  IF Truthy(cli) THEN cli
      ELSE IF Truthy(staged) THEN staged
      ELSE Get(GetObj(input, "doppler"), field)

\* cliParams[cliKey] ?? doppler?.stages?.[stage]?.[field] ?? doppler?.[field]
MergeField(options, input, cliKey, field) ==
  Coalesce(FromEntriesGet(CliParams(options), cliKey),
           Coalesce(Get(StageConfig(input), field),
                    Get(GetObj(input, "doppler"), field)))

\* The arguments resolveDopplerSecret hands to getDopplerSecrets.  Variant 1
\* has no localFallback parameter.
MergeRequest(v, options, input) ==
  [accessToken   |-> MergeField(options, input, "doppler-token", "token"),
   projectId     |-> MergeField(options, input, "doppler-project", "project"),
   configId      |-> MergeField(options, input, "doppler-config", "config"),
   localFallback |-> IF v = 2
                     THEN MergeField(options, input,
                                     "doppler-local-fallback", "localFallback")
                     ELSE Undefined]

---------------------------------------------------------------------------
(* getScopedValue, lines 199-210 and 423-434.                              *)
(*                                                                         *)
(* An absolute, normalised POSIX path is the sequence of its segments;     *)
(* '/' is the empty sequence.  A scope tree is a function from the paths   *)
(* that are keys of `scoped` to their records.                             *)

Root == <<>>

\* resolve(path, '.'): the path stays where it is.
ParentStays(path) == path

\* resolve(path, '..')
Parent(path) == IF path = Root THEN Root ELSE SubSeq(path, 1, Len(path) - 1)

\* scopes[path]
ScopeAt(scopes, path) == IF path \in DOMAIN scopes THEN scopes[path] ELSE EmptyObj

\* The loop body with `if (value) return value` dropped for the root: the
\* walk stops one level early.
ScopedIterationSkipsRoot(scopes, path, selector) ==
  LET value == Get(ScopeAt(scopes, path), selector)
  IN  IF path = Root THEN [returns |-> TRUE, value |-> Null, path |-> path]
      ELSE IF Truthy(value) THEN [returns |-> TRUE, value |-> value, path |-> path]
      ELSE [returns |-> FALSE, value |-> Undefined, path |-> Parent(path)]

\* One iteration of the while loop; selector is the field c => c?.[selector].
ScopedIteration(scopes, path, selector) ==
  LET value == Get(ScopeAt(scopes, path), selector)
  IN  IF Truthy(value) THEN [returns |-> TRUE, value |-> value, path |-> path]
      ELSE IF path = Root THEN [returns |-> TRUE, value |-> Null, path |-> path]
      ELSE [returns |-> FALSE, value |-> Undefined, path |-> Parent(path)]

RECURSIVE getScopedValue(_, _, _)
getScopedValue(scopes, path, selector) ==
  LET it == ScopedIteration(scopes, path, selector)
  IN  IF it.returns THEN it.value ELSE getScopedValue(scopes, it.path, selector)

---------------------------------------------------------------------------
(* Errors and promises *)

Err(kind, detail) == [kind |-> kind, detail |-> detail]
NoError == Err("none", "")

NoSecrets == EmptyObj
PromiseNull == [state |-> "null", value |-> NoSecrets, error |-> NoError]
Pending == [state |-> "pending", value |-> NoSecrets, error |-> NoError]
Fulfilled(value) == [state |-> "fulfilled", value |-> value, error |-> NoError]
Rejected(error) == [state |-> "rejected", value |-> NoSecrets, error |-> error]

---------------------------------------------------------------------------
(* getLocalDopplerSettings, lines 167-197 and 382-421 *)

\* A keychain entry is the sequence of the chunks of its text; getPassword's
\* null is the one-chunk sequence holding the sentinel.
KeyringPrefix == "go-keyring-encoded:"
NoPassword == <<Null>>

\* Hexadecimal texts of the model and the UTF-8 text each decodes to.
HexText == [h \in {"6c746b"} |-> "ltk"]

\* What `encodedToken` holds before getPassword has answered.
NotAsked == <<Undefined>>

\* encodedToken.replace('go-keyring-encoded:', ''): the first occurrence goes.
StripPrefix(chunks) ==
  LET idx == {i \in 1..Len(chunks) : chunks[i] = KeyringPrefix}
  IN  IF idx = {} THEN chunks
      ELSE LET i == CHOOSE k \in idx : \A j \in idx : k <= j
           IN  SubSeq(chunks, 1, i - 1) \o SubSeq(chunks, i + 1, Len(chunks))

\* Buffer.from(text, 'hex').toString('utf8'): decoding stops at the first
\* character that is no hex digit.  (Entries of the model hold at most one
\* chunk besides the prefix.)
HexDecode(chunks) ==
  IF chunks # <<>> /\ chunks[1] \in DOMAIN HexText THEN HexText[chunks[1]] ELSE ""

\* A string is truthy when it is not empty.
TruthyText(chunks) == \E i \in 1..Len(chunks) : chunks[i] # ""

\* a || b
Or(a, b) == IF Truthy(a) THEN a ELSE b

NoSettings == [accessToken |-> Undefined, projectId |-> Undefined, configId |-> Undefined]

LdsIdle ==
  [pc |-> "idle", fileExists |-> FALSE, keychainAccount |-> Undefined,
   projectId |-> Undefined, configId |-> Undefined, encodedToken |-> NotAsked,
   settings |-> NoSettings, error |-> NoError]

LdsReturned(frame, settings) ==
  [frame EXCEPT !.pc = "returned", !.settings = settings]

LdsThrew(frame, error) == [frame EXCEPT !.pc = "threw", !.error = error]

\* if (!fs.existsSync(dopplerConfigPath)) ...: lines 170-172 and 385-387
LocalFileMissing(v) ==
  IF v = 1 THEN LdsThrew(LdsIdle, Err("NoLocalDopplerConfig", ""))
  ELSE LdsReturned(LdsIdle, NoSettings)

\* The call of getLocalDopplerSettings up to its first await.  fs is the
\* local settings file: [exists, scoped]; serviceDir is serverless.serviceDir.
\* keytar's getPassword refuses an empty account ('Account is required.').
LocalStart(v, fs, serviceDir) ==
  IF ~fs.exists THEN LocalFileMissing(v)
  ELSE
    LET frame == [LdsIdle EXCEPT
                    !.fileExists = TRUE,
                    !.keychainAccount = getScopedValue(fs.scoped, serviceDir, "token"),
                    !.projectId = getScopedValue(fs.scoped, serviceDir, "enclave.project"),
                    !.configId = getScopedValue(fs.scoped, serviceDir, "enclave.config")]
    IN  IF Truthy(frame.keychainAccount)
          THEN [frame EXCEPT !.pc = "awaitPassword"]
        ELSE IF v = 1
          THEN LdsThrew(frame, Err("AccountRequired", ""))
        ELSE LdsReturned(frame,
               [accessToken |-> Undefined,
                projectId   |-> Or(frame.projectId, Undefined),
                configId    |-> Or(frame.configId, Undefined)])

\* The continuation of `await getPassword(...)`: lines 192-197 and 410-421.
LocalAfterPassword(v, frame, answer) ==
  IF v = 1
    THEN IF answer = NoPassword
           THEN LdsThrew(frame, Err("TypeError", "encodedToken"))
         ELSE LdsReturned(frame,
                [accessToken |-> HexDecode(StripPrefix(answer)),
                 projectId   |-> frame.projectId,
                 configId    |-> frame.configId])
  ELSE
    LET encodedToken == IF answer = NoPassword THEN <<>> ELSE StripPrefix(answer)
    IN  LdsReturned(frame,
          [accessToken |-> IF TruthyText(encodedToken)
                           THEN HexDecode(encodedToken) ELSE Undefined,
           projectId   |-> Or(frame.projectId, Undefined),
           configId    |-> Or(frame.configId, Undefined)])

---------------------------------------------------------------------------
(* getDopplerSecrets, lines 93-153 and 320-368 *)

\* The activation record: the parameters as passed (request), the locals as
\* they stand, and the await the function is suspended at.
GdsIdle ==
  [pc |-> "idle", request |-> EmptyObj,
   accessToken |-> Undefined, projectId |-> Undefined, configId |-> Undefined,
   localFallback |-> Undefined, localSettings |-> NoSettings,
   pid |-> Undefined]

Throw(error) == [throws |-> TRUE, error |-> error, frame |-> GdsIdle]
Go(frame) == [throws |-> FALSE, error |-> NoError, frame |-> frame]

\* The fallback never taken.
FallbackNever(current, localFallback, localValue) == current

\* x ??= localFallback ? localSettings.x : undefined   (lines 323, 353, 358)
Fallback(current, localFallback, localValue) ==
  Coalesce(current, IF Truthy(localFallback) THEN localValue ELSE Undefined)

\* The binding taken from the first element, however many there are.
BindingPicksFirst(ids, what) ==
  IF ids = <<>> \/ ~Truthy(Head(ids)) THEN Throw(Err("NotFound", what))
  ELSE Go([GdsIdle EXCEPT !.pid = Head(ids)])

\* const [id, ...others] = ids; if (!id) throw ...; if (others?.length) throw ...
\* (lines 113-127 and 333-347).  The frame of a Go holds the id in pid.
Binding(ids, what) ==
  IF ids = <<>> \/ ~Truthy(Head(ids)) THEN Throw(Err("NotFound", what))
  ELSE IF Len(Tail(ids)) > 0 THEN Throw(Err("Multiple", what))
  ELSE Go([GdsIdle EXCEPT !.pid = Head(ids)])

\* projects.projects?.map(p => p.slug) || []
getAvailableProjectIds(response) ==
  IF "projects" \in DOMAIN response
    THEN [i \in 1..Len(response.projects) |-> response.projects[i].slug]
  ELSE <<>>

\* configs.configs?.map(c => c.name) || []
getAvailableConfigIds(response) ==
  IF "configs" \in DOMAIN response
    THEN [i \in 1..Len(response.configs) |-> response.configs[i].name]
  ELSE <<>>

\* The same without `if (!configId) throw ...`.
BeforeSecretsUnchecked(v, frame) ==
  LET projectId == IF v = 2
                   THEN Fallback(frame.projectId, frame.localFallback,
                                 frame.localSettings.projectId)
                   ELSE frame.projectId
      configId  == IF v = 2
                   THEN Fallback(frame.configId, frame.localFallback,
                                 frame.localSettings.configId)
                   ELSE frame.configId
  IN  IF ~Truthy(projectId) THEN Throw(Err("Missing", "project"))
      ELSE Go([frame EXCEPT !.projectId = projectId, !.configId = configId,
                            !.pc = "awaitSecrets"])

\* Lines 140-148 and 353-363: the project and config checks before the
\* secrets are listed.
BeforeSecrets(v, frame) ==
  LET projectId == IF v = 2
                   THEN Fallback(frame.projectId, frame.localFallback,
                                 frame.localSettings.projectId)
                   ELSE frame.projectId
      configId  == IF v = 2
                   THEN Fallback(frame.configId, frame.localFallback,
                                 frame.localSettings.configId)
                   ELSE frame.configId
  IN  IF ~Truthy(projectId) THEN Throw(Err("Missing", "project"))
      ELSE IF ~Truthy(configId) THEN Throw(Err("Missing", "config"))
      ELSE Go([frame EXCEPT !.projectId = projectId, !.configId = configId,
                            !.pc = "awaitSecrets"])

\* Lines 108-110 and 328-330: the client is built and auth.me() called.
CallMe(frame) == Go([frame EXCEPT !.pc = "awaitMe"])

\* The continuation of `await this.getLocalDopplerSettings()`: lines 97-106
\* and 321-326.  local is the settled activation of getLocalDopplerSettings.
AfterLocal(v, frame, local) ==
  IF local.pc = "threw" THEN Throw(local.error)
  ELSE IF v = 1
    THEN IF ~Truthy(local.settings.accessToken)
           THEN Throw(Err("NoLocalAccessToken", ""))
         ELSE CallMe([frame EXCEPT !.accessToken = local.settings.accessToken])
  ELSE
    LET accessToken == Fallback(frame.accessToken, frame.localFallback,
                                local.settings.accessToken)
    IN  IF ~Truthy(accessToken) THEN Throw(Err("Missing", "token"))
        ELSE CallMe([frame EXCEPT !.accessToken = accessToken,
                                  !.localSettings = local.settings])

\* The continuation of `await doppler.auth.me()`: lines 112-113 and 332-333.
AfterMe(v, frame, type) ==
  IF type = "service_token" THEN Go([frame EXCEPT !.pc = "awaitProjects"])
  ELSE BeforeSecrets(v, frame)

\* The continuation of `await this.getAvailableProjectIds(doppler)`.
AfterProjects(v, frame, ids) ==
  LET bound == Binding(ids, "project")
  IN  IF bound.throws THEN bound
      ELSE Go([frame EXCEPT !.pid = bound.frame.pid, !.pc = "awaitConfigs"])

\* Lines 129-134; variant 2 has no such check.
Mismatch(v, frame, pid, cid) ==
  IF v = 1 /\ Truthy(frame.projectId) /\ frame.projectId # pid
    THEN Err("Mismatch", "project")
  ELSE IF v = 1 /\ Truthy(frame.configId) /\ frame.configId # cid
    THEN Err("Mismatch", "config")
  ELSE NoError

\* The continuation of `await this.getAvailableConfigIds(doppler, pid)`.
AfterConfigs(v, frame, ids) ==
  LET bound == Binding(ids, "config")
  IN  IF bound.throws THEN bound
      ELSE LET cid == bound.frame.pid
               bad == Mismatch(v, frame, frame.pid, cid)
           IN  IF bad # NoError THEN Throw(bad)
               ELSE BeforeSecrets(v, [frame EXCEPT !.projectId = frame.pid,
                                                   !.configId = cid])

\* The map built from each entry's raw field (the value before Doppler
\* expands the references in it).
FlattenRaw(response) ==
  [name \in DOMAIN response.secrets |-> response.secrets[name].raw]

\* Object.fromEntries(Object.entries(secrets.secrets).map(([k, v]) => [k, v.computed]))
Flatten(response) ==
  [name \in DOMAIN response.secrets |-> response.secrets[name].computed]

\* The call of getDopplerSecrets up to its first await.
GdsStart(v, request) ==
  LET frame == [GdsIdle EXCEPT !.request = request,
                               !.accessToken = request.accessToken,
                               !.projectId = request.projectId,
                               !.configId = request.configId,
                               !.localFallback = request.localFallback]
  IN  IF v = 1 /\ Truthy(request.accessToken) THEN CallMe(frame).frame
      ELSE [frame EXCEPT !.pc = "awaitLocal"]

---------------------------------------------------------------------------
(* Bounds and the inputs the model draws from *)

MaxLookups == 3   \* resolveDopplerSecret calls of one run
MaxParams  == 2   \* entries of options.param
MaxDepth   == 3   \* segments of the path getScopedValue starts from

SeqsUpTo(S, n) == UNION {[1..k -> S] : k \in 0..n}

Addresses == {"A", "B"}

\* --param strings of a run, as split at '='.
RunParamStrings ==
  {<<"doppler-token", "tk">>, <<"doppler-token", "">>,
   <<"doppler-local-fallback", "false">>}

RunOptions ==
  {EmptyObj} \cup {[param |-> ps] : ps \in SeqsUpTo(RunParamStrings, MaxParams)}

RunStages ==
  {EmptyObj,
   [dev |-> [localFallback |-> JsFalse]],
   [dev |-> [config |-> "c1"], production |-> [token |-> "tk", config |-> "c2"]]}

RunDoppler ==
  [token : {Undefined, "tk"}, project : {Undefined, "p1"},
   config : {Undefined, "c1"}, localFallback : {Undefined, JsTrue},
   stages : RunStages]

\* serverless.configurationInput
RunInputs ==
  {[provider |-> [stage |-> "dev"]]}
    \cup {[provider |-> [stage |-> "dev"], doppler |-> d] : d \in RunDoppler}

\* serverless.serviceDir: /a/b
ServiceDir == <<"a", "b">>

LoginRecord == [token |-> "acct"]
SetupRecord == ("enclave.project" :> "lp") @@ ("enclave.config" :> "lc")

\* ~/.doppler/.doppler.yaml
RunFiles ==
  {[exists |-> FALSE, scoped |-> EmptyObj]}
    \cup {[exists |-> TRUE, scoped |-> t] :
            t \in [{Root, ServiceDir} -> {EmptyObj, LoginRecord, SetupRecord}]}

KeychainAnswers ==
  {NoPassword, <<KeyringPrefix, "6c746b">>, <<"6c746b">>, <<"dp.ct.raw">>}

MeTypes == {"service_token", "personal"}

ProjectResponses ==
  {EmptyObj}
    \cup {[projects |-> ps] :
            ps \in {<<>>, <<[slug |-> "p1"]>>, <<[slug |-> "p2"]>>,
                    <<[slug |-> "p1"], [slug |-> "p2"]>>}}

ConfigResponses ==
  {EmptyObj}
    \cup {[configs |-> cs] :
            cs \in {<<>>, <<[name |-> "c1"]>>, <<[name |-> "c2"]>>,
                    <<[name |-> "c1"], [name |-> "c2"]>>}}

SecretResponses ==
  {[secrets |-> m] :
     m \in UNION {[K -> {[raw |-> "r", computed |-> ""],
                          [raw |-> "r", computed |-> "x"]}] :
                    K \in SUBSET Addresses}}

---------------------------------------------------------------------------
(* The run: resolveDopplerSecret calls and the one fetch they share *)

NoCalls ==
  [getDopplerSecrets |-> 0, getLocalDopplerSettings |-> 0, getPassword |-> 0,
   me |-> 0, projects |-> 0, configs |-> 0, secrets |-> 0]

NothingSeen ==
  [answered |-> {}, meType |-> Undefined, projects |-> <<>>, configs |-> <<>>,
   secrets |-> EmptyObj]

MrgOff == [pc |-> "off"]
GsvOff == [pc |-> "off"]

Invoked(c, op) == [c EXCEPT ![op] = @ + 1]

\* The collaborator operation a suspended getDopplerSecrets waits for.
OpOf(pc) ==
  CASE pc = "awaitMe" -> "me"
    [] pc = "awaitProjects" -> "projects"
    [] pc = "awaitConfigs" -> "configs"
    [] pc = "awaitSecrets" -> "secrets"

\* The rejected call made once more.
AwaitRetried(frame) == Go(frame)

\* An awaited call of the remote service rejects: no try/catch surrounds any
\* await of getDopplerSecrets, so it throws what the call threw.
AwaitRejected(frame) == Throw(Err("RemoteError", OpOf(frame.pc)))

\* getDopplerSecrets runs on to its next await, or throws and the memoized
\* promise is rejected.
Continue(outcome) ==
  /\ gds' = outcome.frame
  /\ promise' = IF outcome.throws THEN Rejected(outcome.error) ELSE promise
  /\ calls' = IF outcome.throws THEN calls ELSE Invoked(calls, OpOf(outcome.frame.pc))

\* A fetch is started although one is pending: the result is memoized, not
\* the promise.
StartsFetchUnlessFulfilled(p) == p.state # "fulfilled"

\* A fetch is started by every lookup that finds none settled: the request
\* is rebuilt from the options of that lookup.
StartsFetchWhilePending(p) == p.state \in {"null", "pending"}

\* A fetch is started again after a failed one.
StartsFetchAfterFailure(p) == p.state \in {"null", "rejected"}

\* if (!this.getDopplerSecretsPromise)   (lines 48 and 264)
StartsFetch(p) == p.state = "null"

Init ==
  /\ variant \in {1, 2}
  /\ promise = PromiseNull
  /\ gds = GdsIdle
  /\ lds = LdsIdle
  /\ lookups = <<>>
  /\ calls = NoCalls
  /\ seen = NothingSeen
  /\ mrg = MrgOff
  /\ gsv = GsvOff

\* The first call: lines 49-79 and 265-306.  input is
\* serverless.configurationInput and fs the local settings file, both read
\* here and nowhere else.
StartFetch(options, input, fs) ==
  LET frame == GdsStart(variant, MergeRequest(variant, options, input))
      local == IF frame.pc = "awaitLocal"
               THEN LocalStart(variant, fs, ServiceDir) ELSE LdsIdle
      c1    == Invoked(calls, "getDopplerSecrets")
      c2    == IF frame.pc = "awaitLocal"
               THEN Invoked(c1, "getLocalDopplerSettings")
               ELSE Invoked(c1, "me")
  IN  /\ promise' = Pending
      /\ gds' = frame
      /\ lds' = local
      /\ calls' = IF local.pc = "awaitPassword"
                  THEN Invoked(c2, "getPassword") ELSE c2

\* resolveDopplerSecret({address, options}) up to `await this.getDopplerSecretsPromise`
resolveDopplerSecret(address, options) ==
  /\ Len(lookups) < MaxLookups
  /\ IF StartsFetch(promise)
       THEN \E input \in RunInputs, fs \in RunFiles : StartFetch(options, input, fs)
       ELSE UNCHANGED <<promise, gds, lds, calls>>
  /\ lookups' = Append(lookups, [address |-> address, joined |-> promise.state,
                                 pc |-> "awaiting",
                                 value |-> Undefined, error |-> NoError])
  /\ UNCHANGED <<variant, seen, mrg, gsv>>

Resolve ==
  \E address \in Addresses, options \in RunOptions :
    resolveDopplerSecret(address, options)

\* The keychain answers getPassword.
PasswordAnswered ==
  /\ lds.pc = "awaitPassword"
  /\ \E answer \in KeychainAnswers :
       lds' = LocalAfterPassword(variant, [lds EXCEPT !.encodedToken = answer], answer)
  /\ UNCHANGED <<variant, promise, gds, lookups, calls, seen, mrg, gsv>>

\* The keychain refuses: getPassword rejects.
PasswordRefused ==
  /\ lds.pc = "awaitPassword"
  /\ lds' = LdsThrew(lds, Err("KeychainError", ""))
  /\ UNCHANGED <<variant, promise, gds, lookups, calls, seen, mrg, gsv>>

\* getDopplerSecrets resumes after `await this.getLocalDopplerSettings()`.
LocalSettled ==
  /\ gds.pc = "awaitLocal"
  /\ lds.pc \in {"returned", "threw"}
  /\ Continue(AfterLocal(variant, gds, lds))
  /\ lds' = LdsIdle
  /\ UNCHANGED <<variant, lookups, seen, mrg, gsv>>

\* A call of the remote service fails: getDopplerSecrets throws what it threw.
RemoteFailed ==
  /\ gds.pc \in {"awaitMe", "awaitProjects", "awaitConfigs", "awaitSecrets"}
  /\ Continue(AwaitRejected(gds))
  /\ UNCHANGED <<variant, lds, lookups, seen, mrg, gsv>>

MeAnswered ==
  /\ gds.pc = "awaitMe"
  /\ \E type \in MeTypes :
       /\ Continue(AfterMe(variant, gds, type))
       /\ seen' = [seen EXCEPT !.answered = @ \cup {"me"}, !.meType = type]
  /\ UNCHANGED <<variant, lds, lookups, mrg, gsv>>

ProjectsAnswered ==
  /\ gds.pc = "awaitProjects"
  /\ \E response \in ProjectResponses :
       LET ids == getAvailableProjectIds(response)
       IN  /\ Continue(AfterProjects(variant, gds, ids))
           /\ seen' = [seen EXCEPT !.answered = @ \cup {"projects"}, !.projects = ids]
  /\ UNCHANGED <<variant, lds, lookups, mrg, gsv>>

ConfigsAnswered ==
  /\ gds.pc = "awaitConfigs"
  /\ \E response \in ConfigResponses :
       LET ids == getAvailableConfigIds(response)
       IN  /\ Continue(AfterConfigs(variant, gds, ids))
           /\ seen' = [seen EXCEPT !.answered = @ \cup {"configs"}, !.configs = ids]
  /\ UNCHANGED <<variant, lds, lookups, mrg, gsv>>

\* doppler.secrets.list answers: getDopplerSecrets returns the flattened map.
SecretsAnswered ==
  /\ gds.pc = "awaitSecrets"
  /\ \E response \in SecretResponses :
       /\ promise' = Fulfilled(Flatten(response))
       /\ seen' = [seen EXCEPT !.answered = @ \cup {"secrets"},
                               !.secrets = response.secrets]
  /\ gds' = GdsIdle
  /\ UNCHANGED <<variant, lds, lookups, calls, mrg, gsv>>

\* Lines 84-90 and 311-317 on the fulfilled map.
SecretAt(secrets, address) ==
  LET value == Get(secrets, address)
  IN  IF ~Truthy(value)
        THEN [pc |-> "threw", value |-> Undefined,
              error |-> Err("UnresolvedSecret", address)]
      ELSE [pc |-> "returned", value |-> value, error |-> NoError]

\* resolveDopplerSecret resumes after `await this.getDopplerSecretsPromise`.
LookupResumed(i) ==
  /\ lookups[i].pc = "awaiting"
  /\ promise.state \in {"fulfilled", "rejected"}
  /\ LET end == IF promise.state = "rejected"
                THEN [pc |-> "threw", value |-> Undefined, error |-> promise.error]
                ELSE SecretAt(promise.value, lookups[i].address)
     IN  lookups' = [lookups EXCEPT ![i] =
                       [address |-> @.address, joined |-> @.joined] @@ end]
  /\ UNCHANGED <<variant, promise, gds, lds, calls, seen, mrg, gsv>>

Resumed == \E i \in 1..Len(lookups) : LookupResumed(i)

Next ==
  \/ Resolve
  \/ PasswordAnswered
  \/ PasswordRefused
  \/ LocalSettled
  \/ RemoteFailed
  \/ MeAnswered
  \/ ProjectsAnswered
  \/ ConfigsAnswered
  \/ SecretsAnswered
  \/ Resumed

Spec == Init /\ [][Next]_vars

---------------------------------------------------------------------------
(* Properties of the run *)

AfterToken == {"awaitMe", "awaitProjects", "awaitConfigs", "awaitSecrets"}

Absent(v) == v \in {Undefined, Null}

Finished(i) == lookups[i].pc # "awaiting"

\* C1: however many lookups are issued and however they interleave with the
\* fetch, getDopplerSecrets is started exactly once (as soon as there is a
\* lookup) and doppler.secrets.list is called at most once.
C1_SingleFetch ==
  /\ calls.getDopplerSecrets <= 1
  /\ (Len(lookups) >= 1 => calls.getDopplerSecrets = 1)
  /\ calls.secrets <= 1

\* Three lookups of one run: one started the fetch, one joined it while it
\* was pending, one came after it was fulfilled.
C1_Witness ==
  /\ Len(lookups) >= 3
  /\ {lookups[i].joined : i \in 1..Len(lookups)} = {"null", "pending", "fulfilled"}
  /\ calls.secrets = 1

\* C3 as claimed: a service token bound to exactly one project and one
\* config makes getDopplerSecrets list the secrets of that pair, whatever
\* project and config the request carries.
C3_ServiceTokenIgnoresRequest ==
  ( /\ seen.meType = "service_token"
    /\ {"projects", "configs"} \subseteq seen.answered
    /\ Len(seen.projects) = 1
    /\ Len(seen.configs) = 1 )
  => /\ calls.secrets = 1
     /\ promise.state = "rejected" => promise.error = Err("RemoteError", "secrets")
     /\ gds.pc = "awaitSecrets" =>
          gds.projectId = seen.projects[1] /\ gds.configId = seen.configs[1]

\* C4: a service token for which the service lists no project or several,
\* or no config or several in the one project, makes getDopplerSecrets fail
\* with the not-found or the multiple error of that listing; the secrets are
\* never listed and no candidate is picked.
C4_AmbiguousBindingFails ==
  /\ ("projects" \in seen.answered /\ Len(seen.projects) # 1)
       => /\ promise.state = "rejected"
          /\ promise.error \in {Err("NotFound", "project"), Err("Multiple", "project")}
          /\ calls.configs = 0
          /\ calls.secrets = 0
  /\ ("configs" \in seen.answered /\ Len(seen.configs) # 1)
       => /\ promise.state = "rejected"
          /\ promise.error \in {Err("NotFound", "config"), Err("Multiple", "config")}
          /\ calls.secrets = 0

\* The service lists two projects for the service token.
C4_Witness ==
  /\ seen.meType = "service_token"
  /\ "projects" \in seen.answered
  /\ Len(seen.projects) = 2
  /\ promise.error = Err("Multiple", "project")

\* C5 as claimed: after a successful fetch a lookup fails exactly when its
\* address is no key of the secret map, the error names the address, and
\* every key resolves to its value, whatever the value.
C5_FailsIffNotAKey ==
  \A i \in 1..Len(lookups) :
    (promise.state = "fulfilled" /\ Finished(i)) =>
      IF lookups[i].address \in DOMAIN promise.value
        THEN /\ lookups[i].pc = "returned"
             /\ lookups[i].value = promise.value[lookups[i].address]
      ELSE /\ lookups[i].pc = "threw"
           /\ lookups[i].error = Err("UnresolvedSecret", lookups[i].address)

\* C6: once the memoized fetch has failed, every lookup that finishes throws
\* that one error, and the rejected promise is never replaced nor is any
\* further call made.
C6_SharedFailure ==
  /\ [](promise.state = "rejected" =>
          \A i \in 1..Len(lookups) :
            Finished(i) => lookups[i].pc = "threw" /\ lookups[i].error = promise.error)
  /\ [][promise.state = "rejected" => (promise' = promise /\ calls' = calls)]_vars

\* A lookup that waited for the fetch and one issued after it failed have
\* both thrown.
C6_Witness ==
  /\ promise.state = "rejected"
  /\ \E i, j \in 1..Len(lookups) :
       /\ lookups[i].joined = "pending" /\ lookups[i].pc = "threw"
       /\ lookups[j].joined = "rejected" /\ lookups[j].pc = "threw"

NotEnabled(localFallback) == localFallback \in {Undefined, Null, JsFalse, "false"}

\* C7 as claimed: with localFallback absent or false nothing comes from the
\* local settings: the token in use is the request's (a request without one
\* has failed), and for a token that is no service token so are the project
\* and the config.
C7_NoFallbackUnlessEnabled ==
  (gds.pc \in AfterToken /\ NotEnabled(gds.request.localFallback))
  => /\ gds.accessToken = gds.request.accessToken
     /\ (gds.pc = "awaitSecrets" /\ seen.meType # "service_token")
          => /\ gds.projectId = gds.request.projectId
             /\ gds.configId = gds.request.configId

\* The local settings getDopplerSecrets holds, or is about to receive.
LocalSettingsAtHand == IF gds.pc = "awaitLocal" THEN lds.settings ELSE gds.localSettings

RequestField(what) ==
  CASE what = "token" -> "accessToken"
    [] what = "project" -> "projectId"
    [] what = "config" -> "configId"

C9_MissingFileGivesEmptySettings ==
  (lds.pc # "idle" /\ ~lds.fileExists)
  => lds.pc = "returned" /\ lds.settings = NoSettings

\* C13 as claimed: when the settings file exists and either no scope on the
\* chain names an account or the credential store answers null for the
\* account, getLocalDopplerSettings returns (it does not throw) and the
\* accessToken it returns is empty.
C13_NoCredentialIsNoError ==
  ( /\ lds.pc \in {"returned", "threw"}
    /\ lds.fileExists
    /\ (~Truthy(lds.keychainAccount) \/ lds.encodedToken = NoPassword) )
  => /\ lds.pc = "returned"
     /\ ~Truthy(lds.settings.accessToken)

\* C14: the memoized map, once there, is the one response of secrets.list
\* with each name mapped to its entry's computed value, and it never changes;
\* every lookup that returns a value returns the computed value of its
\* address in that response, so two lookups of one address return the same.
C14_SnapshotConsistency ==
  /\ [](promise.state = "fulfilled" =>
          /\ "secrets" \in seen.answered
          /\ calls.secrets = 1
          /\ DOMAIN promise.value = DOMAIN seen.secrets
          /\ \A name \in DOMAIN seen.secrets :
               promise.value[name] = seen.secrets[name].computed)
  /\ [](\A i \in 1..Len(lookups) :
          lookups[i].pc = "returned" =>
            /\ promise.state = "fulfilled"
            /\ lookups[i].address \in DOMAIN seen.secrets
            /\ lookups[i].value = seen.secrets[lookups[i].address].computed)
  /\ [](\A i, j \in 1..Len(lookups) :
          ( /\ lookups[i].pc = "returned"
            /\ lookups[j].pc = "returned"
            /\ lookups[i].address = lookups[j].address )
          => lookups[i].value = lookups[j].value)
  /\ [][promise.state = "fulfilled" =>
          (promise' = promise /\ seen'.secrets = seen.secrets)]_vars

\* Two lookups of one address, one issued before the fetch had an answer and
\* one after, and a lookup of the other name of the response, have all
\* returned.
C14_Witness ==
  /\ promise.state = "fulfilled"
  /\ DOMAIN seen.secrets = Addresses
  /\ \E i, j, k \in 1..Len(lookups) :
       /\ lookups[i].address = lookups[j].address
       /\ lookups[i].joined \in {"null", "pending"}
       /\ lookups[j].joined = "fulfilled"
       /\ lookups[k].address # lookups[i].address
       /\ \A n \in {i, j, k} : lookups[n].pc = "returned"

\* The errors that come out of getLocalDopplerSettings.
LocalErrorKinds ==
  {"NoLocalDopplerConfig", "AccountRequired", "TypeError", "KeychainError"}

\* C15 as claimed: with a token in the merged request getDopplerSecrets
\* neither calls getLocalDopplerSettings (no file read, no getPassword) nor
\* is rejected with an error of it.
C15_LoaderOnlyWithoutToken ==
  /\ []((gds.pc # "idle" /\ Truthy(gds.request.accessToken)) =>
          /\ gds.pc # "awaitLocal"
          /\ calls.getLocalDopplerSettings = 0
          /\ calls.getPassword = 0)
  /\ [][( /\ gds.pc # "idle"
          /\ Truthy(gds.request.accessToken)
          /\ promise'.state = "rejected" )
        => promise'.error.kind \notin LocalErrorKinds]_vars

RemoteOps == {"me", "projects", "configs", "secrets"}

\* C16: no operation of the remote service is invoked twice in a run, and
\* neither the step in which the fetch fails nor any step after it invokes
\* one, whatever lookups follow.
C16_NoRetries ==
  /\ [](\A op \in RemoteOps : calls[op] <= 1)
  /\ [][promise'.state = "rejected" =>
          \A op \in RemoteOps : calls'[op] = calls[op]]_vars

\* The config listing failed after auth.me and the project listing had
\* answered; a lookup issued after the failure has thrown.
C16_Witness ==
  /\ promise.state = "rejected"
  /\ promise.error = Err("RemoteError", "configs")
  /\ calls.me = 1 /\ calls.projects = 1 /\ calls.configs = 1 /\ calls.secrets = 0
  /\ \E i \in 1..Len(lookups) :
       lookups[i].joined = "rejected" /\ lookups[i].pc = "threw"

\* 'missing doppler access token' (line 325) and 'no doppler access token
\* provided and local doppler cli not configured for project' (lines 100-102).
NamesToken(error) ==
  error \in {Err("Missing", "token"), Err("NoLocalAccessToken", "")}

\* The request has no value of the field, and with the fallback enabled the
\* local settings have none either.
Lacks(frame, field) ==
  /\ ~Truthy(frame.request[field])
  /\ (Truthy(frame.request.localFallback) /\ Absent(frame.request[field]))
       => ~Truthy(frame.localSettings[field])

C18_RequestBuiltOnce ==
  /\ [][(gds.pc = "idle" /\ gds'.pc # "idle")
        => Len(lookups) = 0 /\ Len(lookups') = 1]_vars
  /\ [][(Len(lookups') > Len(lookups) /\ Len(lookups) >= 1)
        => UNCHANGED <<promise, gds, lds, calls, seen>>]_vars
  /\ [][(gds.pc # "idle" /\ gds'.pc # "idle") => gds'.request = gds.request]_vars
  /\ [][promise.state \in {"fulfilled", "rejected"} => promise' = promise]_vars

\* Two lookups were issued while the fetch of the first was under way and
\* secrets.list is awaited for the request of the first; getDopplerSecrets
\* has been called once.
C18_Witness ==
  /\ Len(lookups) = 3
  /\ lookups[1].joined = "null"
  /\ lookups[2].joined = "pending"
  /\ lookups[3].joined = "pending"
  /\ gds.pc = "awaitSecrets"
  /\ gds.accessToken = gds.request.accessToken
  /\ gds.projectId = gds.request.projectId
  /\ gds.configId = gds.request.configId
  /\ calls.getDopplerSecrets = 1

\* The request names a project or a config other than the bound one.
Differs(request, pid, cid) ==
  \/ Truthy(request.projectId) /\ request.projectId # pid
  \/ Truthy(request.configId) /\ request.configId # cid

\* C12 as claimed: when the service lists exactly one project and one config
\* for a service token and the request names another project or config, the
\* step that receives the config listing rejects the fetch with the mismatch
\* error, and the secrets are not listed.
C12_MismatchFails ==
  [][( /\ gds.pc = "awaitConfigs"
       /\ "configs" \in seen'.answered
       /\ Len(seen.projects) = 1
       /\ Len(seen'.configs) = 1
       /\ Differs(gds.request, seen.projects[1], seen'.configs[1]) )
     => /\ promise'.state = "rejected"
        /\ promise'.error.kind = "Mismatch"
        /\ calls'.secrets = 0]_vars

---------------------------------------------------------------------------
(* The precedence merge on its own: every layering of CLI, stage and       *)
(* service-wide values, merged once.                                       *)

MergeParamStrings ==
  {<<"doppler-token", "tC">>, <<"doppler-token">>, <<"doppler-token", "">>,
   <<"doppler-project", "pC">>, <<"doppler-config", "cC">>,
   <<"doppler-local-fallback", "false">>, <<"stage", "dev">>}

MergeOptions ==
  {EmptyObj} \cup {[param |-> ps] : ps \in SeqsUpTo(MergeParamStrings, MaxParams)}

MergeStageRecords ==
  [token : {Undefined, "tS"}, project : {Undefined, "pS"},
   config : {Undefined, "cS"}, localFallback : {Undefined, JsFalse}]
    \cup {[token |-> ""], [config |-> Null, localFallback |-> JsTrue]}

MergeStages ==
  {[dev |-> r] : r \in MergeStageRecords}
    \cup {EmptyObj, [production |-> [token |-> "tP", project |-> "pP"]]}

MergeDoppler ==
  {[token |-> t, project |-> p, config |-> c, localFallback |-> f, stages |-> st] :
     t \in {Undefined, "tG"}, p \in {Undefined, "pG"}, c \in {Undefined, "cG"},
     f \in {Undefined, JsTrue}, st \in MergeStages}
    \cup {[token |-> "tG"], [project |-> Null, localFallback |-> JsFalse]}

MergeInputs ==
  {[provider |-> [stage |-> "dev"]]}
    \cup {[provider |-> [stage |-> "dev"], doppler |-> d] : d \in MergeDoppler}

InitMerge ==
  /\ variant \in {1, 2}
  /\ promise = PromiseNull
  /\ gds = GdsIdle
  /\ lds = LdsIdle
  /\ lookups = <<>>
  /\ calls = NoCalls
  /\ seen = NothingSeen
  /\ gsv = GsvOff
  /\ \E options \in MergeOptions, input \in MergeInputs :
       mrg = [pc |-> "ready", options |-> options, input |-> input,
              request |-> EmptyObj]

\* Lines 49-71 and 265-293 applied to the options and the configuration.
Merge ==
  /\ mrg.pc = "ready"
  /\ mrg' = [mrg EXCEPT !.pc = "merged",
                        !.request = MergeRequest(variant, mrg.options, mrg.input)]
  /\ UNCHANGED <<variant, promise, gds, lds, lookups, calls, seen, gsv>>

NextMerge == Merge

SpecMerge == InitMerge /\ [][NextMerge]_vars

\* The value the command line gives a key: that of the last --param of the
\* name, absent when there is none or when it has no '='.
CliValue(options, key) ==
  LET param == IF "param" \in DOMAIN options THEN options.param ELSE <<>>
      named == {i \in 1..Len(param) :
                  /\ param[i] # NoParam
                  /\ param[i][1] = key
                  /\ key \in DopplerPrefixed}
  IN  IF named = {} THEN Undefined
      ELSE LET last == CHOOSE i \in named : \A j \in named : j <= i
           IN  IF Len(param[last]) >= 2 THEN param[last][2] ELSE Undefined

StageValue(input, field) ==
  IF /\ "doppler" \in DOMAIN input
     /\ "stages" \in DOMAIN input.doppler
     /\ input.provider.stage \in DOMAIN input.doppler.stages
     /\ field \in DOMAIN input.doppler.stages[input.provider.stage]
  THEN input.doppler.stages[input.provider.stage][field]
  ELSE Undefined

GlobalValue(input, field) ==
  IF "doppler" \in DOMAIN input /\ field \in DOMAIN input.doppler
  THEN input.doppler[field] ELSE Undefined

Layered(cli, staged, global) ==
  IF ~Absent(cli) THEN cli
  ELSE IF ~Absent(staged) THEN staged
  ELSE IF ~Absent(global) THEN global
  ELSE Undefined

MergedFields(v) ==
  {<<"doppler-token", "token", "accessToken">>,
   <<"doppler-project", "project", "projectId">>,
   <<"doppler-config", "config", "configId">>}
    \cup (IF v = 2
          THEN {<<"doppler-local-fallback", "localFallback", "localFallback">>}
          ELSE {})

\* C2: for each of token, project, config and localFallback on its own, the
\* merged value is the CLI value if there is one, else the stage's, else the
\* service-wide one, else empty.
C2_Precedence ==
  mrg.pc = "merged" =>
    \A f \in MergedFields(variant) :
      LET expected == Layered(CliValue(mrg.options, f[1]),
                              StageValue(mrg.input, f[2]),
                              GlobalValue(mrg.input, f[2]))
      IN  IF Absent(expected) THEN Absent(mrg.request[f[3]])
          ELSE mrg.request[f[3]] = expected

\* A present but falsy stage value (localFallback false) wins over the
\* service-wide true, while the token comes from the command line and the
\* project from the service-wide block.
C2_Witness ==
  /\ mrg.pc = "merged"
  /\ variant = 2
  /\ StageValue(mrg.input, "localFallback") = JsFalse
  /\ GlobalValue(mrg.input, "localFallback") = JsTrue
  /\ mrg.request.localFallback = JsFalse
  /\ CliValue(mrg.options, "doppler-token") = "tC"
  /\ StageValue(mrg.input, "token") = "tS"
  /\ mrg.request.accessToken = "tC"
  /\ Absent(StageValue(mrg.input, "project"))
  /\ mrg.request.projectId = "pG"

\* C11 as claimed: with --param doppler-local-fallback=false the merged
\* localFallback is the boolean false and the fallback does not replace a
\* missing token by the local one, whatever the stage and the service-wide
\* block declare.
C11_CliFalseIsFalse ==
  ( /\ mrg.pc = "merged"
    /\ variant = 2
    /\ CliValue(mrg.options, "doppler-local-fallback") = "false" )
  => /\ mrg.request.localFallback = JsFalse
     /\ Fallback(Undefined, mrg.request.localFallback, "ltk") = Undefined

---------------------------------------------------------------------------
(* getScopedValue on its own: one walk, an iteration of the loop a step.   *)

Segments == {"a", "b"}

Paths(depth) == SeqsUpTo(Segments, depth)

Selectors == {"token", "enclave.project", "enclave.config"}

WalkRecords ==
  {EmptyObj, LoginRecord, SetupRecord,
   [token |-> ""] @@ ("enclave.project" :> "lp2") @@ ("enclave.config" :> Null)}

WalkKeys == {Root, <<"a">>, <<"a", "b">>, <<"b">>}

WalkTrees == UNION {[K -> WalkRecords \ {EmptyObj}] : K \in SUBSET WalkKeys}
               \cup {[k \in {Root, <<"a">>} |-> EmptyObj]}

InitScoped ==
  /\ variant \in {1, 2}
  /\ promise = PromiseNull
  /\ gds = GdsIdle
  /\ lds = LdsIdle
  /\ lookups = <<>>
  /\ calls = NoCalls
  /\ seen = NothingSeen
  /\ mrg = MrgOff
  /\ \E scopes \in WalkTrees, start \in Paths(MaxDepth), selector \in Selectors :
       gsv = [pc |-> "loop", scopes |-> scopes, start |-> start,
              selector |-> selector, path |-> start, result |-> Undefined]

\* One pass through the body of `while (true)`.
ScopedStep ==
  /\ gsv.pc = "loop"
  /\ LET it == ScopedIteration(gsv.scopes, gsv.path, gsv.selector)
     IN  gsv' = IF it.returns
                THEN [gsv EXCEPT !.pc = "returned", !.result = it.value]
                ELSE [gsv EXCEPT !.path = it.path]
  /\ UNCHANGED <<variant, promise, gds, lds, lookups, calls, seen, mrg>>

NextScoped == ScopedStep

SpecScoped == InitScoped /\ [][NextScoped]_vars

\* The start path and its ancestors up to '/'.
Chain(start) == {SubSeq(start, 1, k) : k \in 0..Len(start)}

\* The paths of the chain whose record has a non-empty value of the field.
Holders(scopes, start, selector) ==
  {p \in Chain(start) :
     /\ p \in DOMAIN scopes
     /\ selector \in DOMAIN scopes[p]
     /\ scopes[p][selector] \notin {Undefined, Null, ""}}

Nearest(scopes, start, selector) ==
  LET holders == Holders(scopes, start, selector)
  IN  IF holders = {} THEN Null
      ELSE scopes[CHOOSE p \in holders : \A q \in holders : Len(q) <= Len(p)][selector]

\* C10: getScopedValue returns the field of the nearest path of the chain
\* start, parent, ..., '/' whose record has a non-empty value of it, and null
\* (not found) when no path of the chain, '/' included, has one.
C10_NearestScopeWins ==
  gsv.pc = "returned" =>
    /\ gsv.result = Nearest(gsv.scopes, gsv.start, gsv.selector)
    /\ getScopedValue(gsv.scopes, gsv.start, gsv.selector) = gsv.result

\* A walk from /a/b/x that passes /a/b (no value) and stops at /a, although
\* '/' holds a value too.
C10_Witness ==
  /\ gsv.pc = "returned"
  /\ Len(gsv.start) = 3
  /\ gsv.path = <<"a">>
  /\ Truthy(gsv.result)
  /\ Root \in Holders(gsv.scopes, gsv.start, gsv.selector)
  /\ <<"a", "b">> \in DOMAIN gsv.scopes

\* The loop is synchronous code: once entered it takes its next iteration.
SpecScopedFair == SpecScoped /\ WF_vars(ScopedStep)

\* C19: every walk returns; an iteration either returns where it stands or
\* goes on at the parent, which is one segment shorter, and the iteration at
\* '/' always returns.
C19_WalkTerminates ==
  /\ <>(gsv.pc = "returned")
  /\ [][gsv.pc = "loop" =>
          \/ gsv'.pc = "returned" /\ gsv'.path = gsv.path
          \/ /\ gsv'.pc = "loop"
             /\ Len(gsv.path) > 0
             /\ gsv'.path = SubSeq(gsv.path, 1, Len(gsv.path) - 1)]_vars
  /\ [][(gsv.pc = "loop" /\ gsv.path = Root) => gsv'.pc = "returned"]_vars
  /\ [](gsv.pc = "returned" => gsv.path \in Chain(gsv.start))

\* A walk from a path of three segments that found nothing on the way and
\* stopped at '/' with null.
C19_Witness ==
  /\ gsv.pc = "returned"
  /\ Len(gsv.start) >= 3
  /\ gsv.path = Root
  /\ gsv.result = Null
  /\ gsv.scopes # EmptyObj

====
